---- MODULE Spec2Model ----
(***************************************************************************)
(* BoardStitcher (apps/web/src/lib/mapping/stitcher.ts, carried in         *)
(* src/apps/web/src/lib/camera/useCamera.ts lines 108-481).                *)
(*                                                                         *)
(* Numbers.  JavaScript numbers are modelled exactly: a frame quality q is *)
(* held as the integer 100*q, and every non-integer result (a correlation  *)
(* score, getQuality, getProgress) as a fraction [num, den] in lowest      *)
(* terms.  Canvases are heap objects: a reference is an object id (0 is    *)
(* null) and `heap` maps each live id to the canvas it names, so that two  *)
(* references to one canvas are told from two equal canvases.              *)
(*                                                                         *)
(* StudyModePage (apps/web/src/app/mode/study/page.tsx, carried in         *)
(* src/unnamed/part_001): the annotation lists per board-side and the undo *)
(* and redo stacks.  Spec and SpecLong run a stitcher, SpecStudy the page. *)
(*                                                                         *)
(* ScanModePage (src/apps/web/src/app/mode/scan/page.tsx) with its two     *)
(* stitchers, run by SpecScan; the useCamera hook (useCamera.ts lines      *)
(* 14-106), whose effect CameraView (src/apps/web/src/app/page.tsx lines   *)
(* 132-188) repeats, run by SpecCamera; and the useComponentDetection hook *)
(* (src/apps/web/src/lib/vision/quality.ts lines 138-326), run by          *)
(* SpecDetection.                                                          *)
(***************************************************************************)
EXTENDS Integers, Sequences, FiniteSets, TLC

VARIABLES frames, composition, transforms, overlaps, heap, ret

(* The state of StudyModePage (src/unnamed/part_001): its useState values, *)
(* the number of board images still loading, and hist, what has happened:  *)
(* the last handler run, for each entry of the undo and redo stacks the    *)
(* board-side that was current when it was recorded, and the run of undos  *)
(* and redos in progress.                                                  *)
VARIABLES sampleBoards, selectedBoardId, boardSide, annotationsByBoard,
          annotations, undoStack, redoStack, imagesLoading, hist

(* The state of ScanModePage (src/apps/web/src/app/mode/scan/page.tsx):    *)
(* scanState, the frame counters and the two stitchers held in refs (each   *)
(* stitcher by the ids of its frames, the pairs its stored overlaps name    *)
(* and the frames its composition was built from), the canvases captured    *)
(* for the two sides, and task, the call that is running: which side's      *)
(* stitch() it is, where it stands, and the frames stored when it began.    *)
VARIABLES scanState, frameCounter, stitchers, capturedFrames, task

(* The state of one useCamera hook (useCamera.ts lines 14-106), which the  *)
(* effect of CameraView repeats: whether the component is mounted, so that  *)
(* videoRef.current is set, streamRef.current (0: null), the getUserMedia   *)
(* requests not yet settled, for each stream obtained whether its tracks    *)
(* are live or stopped, isActive, and stopped: whether stopCamera or the    *)
(* effect cleanup has run with no startCamera after it.                     *)
VARIABLES lifecycle, streamRef, requests, tracks, isActive, stopped

(* The state of one useComponentDetection hook (lib/vision/quality.ts       *)
(* lines 138-326): its inputs searchQuery and ocrWords at the last render,  *)
(* historyRef.current, matchedComponent, the setMatchedComponent update     *)
(* queued by the last render (<<>>: none), and the renders its parent has   *)
(* caused.  An object is told from the others by its ref.                   *)
VARIABLES searchQuery, ocrWords, historyRef, matchedComponent, pendingUpdate, renders

stitcherVars == <<frames, composition, transforms, overlaps, heap, ret>>

pageVars == <<sampleBoards, selectedBoardId, boardSide, annotationsByBoard,
              annotations, undoStack, redoStack, imagesLoading, hist>>

scanVars == <<scanState, frameCounter, stitchers, capturedFrames, task>>

cameraVars == <<lifecycle, streamRef, requests, tracks, isActive, stopped>>

detectionVars == <<searchQuery, ocrWords, historyRef, matchedComponent, pendingUpdate, renders>>

vars == <<frames, composition, transforms, overlaps, heap, ret,
          sampleBoards, selectedBoardId, boardSide, annotationsByBoard,
          annotations, undoStack, redoStack, imagesLoading, hist,
          scanState, frameCounter, stitchers, capturedFrames, task,
          lifecycle, streamRef, requests, tracks, isActive, stopped,
          searchQuery, ocrWords, historyRef, matchedComponent, pendingUpdate, renders>>

(* What a step of the stitcher, of the study page, of the scan page, of the *)
(* camera hook, of the detection hook leaves alone.                         *)
exceptStitcher == <<pageVars, scanVars, cameraVars, detectionVars>>

exceptPage == <<stitcherVars, scanVars, cameraVars, detectionVars>>

exceptScan == <<stitcherVars, pageVars, cameraVars, detectionVars>>

exceptCamera == <<stitcherVars, pageVars, scanVars, detectionVars>>

exceptDetection == <<stitcherVars, pageVars, scanVars, cameraVars>>

(* The longest frame list explored under Spec, and under SpecLong. *)
MaxFrames == 3

MaxLong == 21

---------------------------------------------------------------------------
(* Arithmetic *)

Abs(n) == IF n < 0 THEN -n ELSE n

Min(a, b) == IF a < b THEN a ELSE b

Max(a, b) == IF a > b THEN a ELSE b

RECURSIVE Gcd(_, _)
Gcd(a, b) == IF b = 0 THEN a ELSE Gcd(b, a % b)

(* The fraction n/d (d > 0) in lowest terms. *)
Frac(n, d) == LET g == Gcd(Abs(n), d) IN [num |-> n \div g, den |-> d \div g]

FracAdd(p, q) ==
  LET l == (p.den \div Gcd(p.den, q.den)) * q.den
  IN Frac(p.num * (l \div p.den) + q.num * (l \div q.den), l)

FracMul(p, q) == Frac(p.num * q.num, p.den * q.den)

FracDivInt(p, k) == Frac(p.num, p.den * k)

FracLess(p, q) == p.num * q.den < q.num * p.den

FracLeq(p, q) == p.num * q.den <= q.num * p.den

FracMin(p, q) == IF FracLess(p, q) THEN p ELSE q

Zero == Frac(0, 1)

One == Frac(1, 1)

---------------------------------------------------------------------------
(* Rasters.  A canvas is [width, height, kind, layers, crop, ctx]: kind    *)
(* names the pixel content, layers and crop describe a composite (the draw *)
(* calls made on it and the source rectangle it was copied from), and ctx  *)
(* tells whether getContext('2d') yields a drawing surface for it.         *)

(* The RGB colour of pixel (x, y) of a captured frame of the given kind. *)
Colour(kind, x, y) ==
  CASE kind = "black"   -> <<0, 0, 0>>
    [] kind = "white"   -> <<255, 255, 255>>
    [] kind = "grey"    -> <<127, 127, 128>>
    [] kind = "stripes" -> IF x % 2 = 1 THEN <<0, 0, 0>> ELSE <<255, 255, 255>>

(* A value stored into a Uint8ClampedArray: rounded to the nearest integer *)
(* (a third is never a tie) and clamped to 0..255.  total is 3 * value.    *)
ToUint8Clamped(total) == Min(255, Max(0, (2 * total + 3) \div 6))

(* data[idx..idx+2] of getImageData for the pixel with linear index p; a   *)
(* read outside the buffer is undefined, the mean NaN, and NaN stores 0.   *)
GrayAt(c, p) ==
  IF p < 0 \/ p >= c.width * c.height
    THEN 0
    ELSE LET col == Colour(c.kind, p % c.width, p \div c.width)
         IN ToUint8Clamped(col[1] + col[2] + col[3])

(* The strip as a 1-based sequence: entry k+1 is edge[k]. *)
extractVerticalEdge(canvas, side, width) ==
  LET x == IF side = "right" THEN canvas.width - width ELSE 0
      n == canvas.height * width
  IN SubSeq([k \in 1..n |->
               LET y  == (k - 1) \div width
                   px == (k - 1) % width
               IN GrayAt(canvas, y * canvas.width + x + px)], 1, n)

(* sum of 255 - |edge1[i] - edge2[i + offset]| for lo <= i <= hi (1-based) *)
RECURSIVE SumDiff(_, _, _, _, _)
SumDiff(edge1, edge2, offset, lo, hi) ==
  IF lo > hi THEN 0
  ELSE IF lo = hi THEN 255 - Abs(edge1[lo] - edge2[lo + offset])
  ELSE LET mid == (lo + hi) \div 2
       IN SumDiff(edge1, edge2, offset, lo, mid)
          + SumDiff(edge1, edge2, offset, mid + 1, hi)

correlateEdges(edge1, edge2, offset) ==
  LET count == Max(0, Min(Len(edge1), Len(edge2) - offset))
  IN IF count > 0
       THEN Frac(SumDiff(edge1, edge2, offset, 1, count), 255 * count)
       ELSE Zero

EdgeWidth == 60

OffsetMargin == 20

(* An offset loop that scores the first offset only. *)
BestFromFirstOffset(rightEdge, leftEdge, offset, bestOffset, bestScore) ==
  IF ~(offset < Min(Len(rightEdge), Len(leftEdge)) - OffsetMargin)
    THEN [bestOffset |-> bestOffset, bestScore |-> bestScore]
    ELSE LET score == correlateEdges(rightEdge, leftEdge, offset)
         IN IF FracLess(bestScore, score)
              THEN [bestOffset |-> offset, bestScore |-> score]
              ELSE [bestOffset |-> bestOffset, bestScore |-> bestScore]

(* The offset loop of detectOverlap from `offset` on. *)
RECURSIVE BestFrom(_, _, _, _, _)
BestFrom(rightEdge, leftEdge, offset, bestOffset, bestScore) ==
  IF ~(offset < Min(Len(rightEdge), Len(leftEdge)) - OffsetMargin)
    THEN [bestOffset |-> bestOffset, bestScore |-> bestScore]
    ELSE LET score == correlateEdges(rightEdge, leftEdge, offset)
         IN IF FracLess(bestScore, score)
              THEN BestFrom(rightEdge, leftEdge, offset + 1, offset, score)
              ELSE BestFrom(rightEdge, leftEdge, offset + 1, bestOffset, bestScore)

BestCorrelation(canvas1, canvas2) ==
  BestFrom(extractVerticalEdge(canvas1, "right", EdgeWidth),
           extractVerticalEdge(canvas2, "left", EdgeWidth), 0, 0, Zero)

---------------------------------------------------------------------------
(* Inputs.  The frames a caller hands to addFrame: id, index, the canvas   *)
(* (by value here; addFrame receives a reference to a fresh heap object)   *)
(* and 100 * quality.  They cover a rejected quality, the boundary 0.3,    *)
(* a repeated id, a repeated and an out-of-order index, a frame narrower   *)
(* than the 60px strip, two heights, edges that correlate best at offset 0 *)
(* and at a later offset, at exactly 0.5, just below it and not at all,    *)
(* and a canvas without a 2d context.                                      *)

Canvas(w, h, kind, ctx) ==
  [width |-> w, height |-> h, kind |-> kind, layers |-> <<>>, crop |-> <<>>,
   ctx |-> ctx]

Frame(id, index, canvas, quality) ==
  [id |-> id, index |-> index, canvas |-> canvas, quality |-> quality]

FrameInputs ==
  { Frame("a", 0, Canvas(60, 1, "black", TRUE), 100),
    Frame("b", 1, Canvas(60, 1, "white", TRUE), 30),
    Frame("a", 2, Canvas(5, 1, "black", TRUE), 85),
    Frame("d", 0, Canvas(60, 1, "stripes", TRUE), 90),
    Frame("e", 3, Canvas(80, 2, "grey", TRUE), 95),
    Frame("f", 4, Canvas(60, 1, "black", FALSE), 90),
    Frame("g", 5, Canvas(60, 1, "black", TRUE), 29),
    Frame("h", 6, Canvas(80, 2, "grey", TRUE), 0) }

NoFrame == Frame("", 0, Canvas(0, 0, "none", FALSE), 0)

(* What the offset search reads of a canvas. *)
ContentKey(canvas) == <<canvas.width, canvas.height, canvas.kind>>

KeyCanvas(key) == Canvas(key[1], key[2], key[3], TRUE)

ContentKeys == { ContentKey(f.canvas) : f \in FrameInputs }

(* BestCorrelation tabulated over the canvases that occur, so that the     *)
(* search is evaluated once per pair of contents.                          *)
RECURSIVE SearchRow(_, _)
SearchRow(key1, keys) ==
  IF keys = {} THEN <<>>
  ELSE LET key2 == CHOOSE k \in keys : TRUE
       IN (key2 :> BestCorrelation(KeyCanvas(key1), KeyCanvas(key2)))
          @@ SearchRow(key1, keys \ {key2})

RECURSIVE SearchRows(_)
SearchRows(keys) ==
  IF keys = {} THEN <<>>
  ELSE LET key1 == CHOOSE k \in keys : TRUE
       IN (key1 :> SearchRow(key1, ContentKeys)) @@ SearchRows(keys \ {key1})

SearchMemo == SearchRows(ContentKeys)

MinConfidence == Frac(1, 2)

(* A detection that accepts every best score. *)
TooWeakNever(bestScore) == FALSE

(* Line 180: the best score is below the required confidence. *)
TooWeak(bestScore) == FracLess(bestScore, MinConfidence)

(* detectOverlap returns the region as a sequence: <<>> is null. *)
detectOverlap(frame1, frame2) ==
  LET canvas1 == heap[frame1.canvas]
      canvas2 == heap[frame2.canvas]
  IN IF ~canvas1.ctx \/ ~canvas2.ctx THEN <<>>
     ELSE LET best == SearchMemo[ContentKey(canvas1)][ContentKey(canvas2)]
          IN IF TooWeak(best.bestScore) THEN <<>>
             ELSE << [frame1Id   |-> frame1.id,
                      frame2Id   |-> frame2.id,
                      x          |-> canvas1.width - EdgeWidth,
                      y          |-> best.bestOffset,
                      width      |-> EdgeWidth,
                      height     |-> canvas1.height - Abs(best.bestOffset),
                      confidence |-> best.bestScore] >>

---------------------------------------------------------------------------
(* State.  frames, composition, transforms and overlaps are the fields of  *)
(* one BoardStitcher; heap holds the canvases they and the caller refer    *)
(* to; ret is what the last call was and what it gave back to its caller:  *)
(* outcome "ok" or the error thrown, value the canvas returned (0: none),  *)
(* arg the frame passed to addFrame, preWidth and preHeight the size of    *)
(* the composite canvas of a multi-frame stitch before cropping, and       *)
(* noSurface whether getContext('2d') gave null for the composite canvas   *)
(* or for the cropped canvas during the call.                              *)

Result(op, outcome, value, arg, preWidth, preHeight, noSurface) ==
  [op |-> op, outcome |-> outcome, value |-> value, arg |-> arg,
   preWidth |-> preWidth, preHeight |-> preHeight, noSurface |-> noSurface]

InitStitcher ==
  /\ frames = <<>>
  /\ composition = 0
  /\ transforms = <<>>
  /\ overlaps = <<>>
  /\ heap = <<>>
  /\ ret = Result("new", "ok", 0, NoFrame, 0, 0, FALSE)

(* The canvases still referred to by the stitcher or by its caller. *)
Live(fs, comp, r) ==
  ({ fs[i].canvas : i \in 1..Len(fs) } \cup {comp, r.value}) \ {0}

Collect(h, fs, comp, r) ==
  [o \in (DOMAIN h) \cap Live(fs, comp, r) |-> h[o]]

(* References.  Only which references are equal matters, so they are     *)
(* named canonically: the canvas a stitch creates and keeps is 1 (the one *)
(* an earlier stitch created is dropped by the stitcher in the same       *)
(* call), and the canvas of the n-th stored frame is n + 1 (each addFrame *)
(* is handed a canvas of its own).                                        *)
CompositeRef == 1

FrameRef(n) == n + 1

---------------------------------------------------------------------------
(* addFrame *)

MinQuality == 30

(* A quality gate that lets every frame in. *)
RejectsNever(frame) == FALSE

Rejects(frame) == frame.quality < MinQuality

(* An addFrame that puts the accepted frame first. *)
addFrameFirst(input) ==
  /\ ret' = Result("addFrame", "ok", 0, input, 0, 0, FALSE)
  /\ IF Rejects(input)
       THEN /\ frames' = frames
            /\ heap' = Collect(heap, frames', composition, ret')
       ELSE LET canvas == FrameRef(Len(frames) + 1)
            IN /\ frames' = <<Frame(input.id, input.index, canvas, input.quality)>> \o frames
               /\ heap' = Collect((canvas :> input.canvas) @@ heap, frames', composition, ret')
  /\ UNCHANGED <<composition, transforms, overlaps>>

addFrame(input) ==
  /\ ret' = Result("addFrame", "ok", 0, input, 0, 0, FALSE)
  /\ IF Rejects(input)
       THEN /\ frames' = frames
            /\ heap' = Collect(heap, frames', composition, ret')
       ELSE LET canvas == FrameRef(Len(frames) + 1)
            IN /\ frames' = Append(frames, Frame(input.id, input.index, canvas, input.quality))
               /\ heap' = Collect((canvas :> input.canvas) @@ heap, frames', composition, ret')
  /\ UNCHANGED <<composition, transforms, overlaps>>

---------------------------------------------------------------------------
(* Getters *)

getComposition == composition

getFrameCount == Len(frames)

getFrames == frames

(* getProgress without the cap at 100. *)
ProgressUncapped(fs, os) ==
  IF Len(fs) = 0 THEN Zero
  ELSE FracAdd(Frac(Len(fs) * 60, 20), Frac(Len(os) * 40, Max(1, Len(fs) - 1)))

(* getProgress() of a stitcher whose frames are fs and overlaps os. *)
Progress(fs, os) ==
  IF Len(fs) = 0 THEN Zero
  ELSE LET frameProgress   == Frac(Len(fs) * 60, 20)
           overlapProgress == Frac(Len(os) * 40, Max(1, Len(fs) - 1))
       IN FracMin(Frac(100, 1), FracAdd(frameProgress, overlapProgress))

getProgress == Progress(frames, overlaps)

RECURSIVE SumConfidence(_, _)
SumConfidence(os, n) ==
  IF n = 0 THEN Zero ELSE FracAdd(SumConfidence(os, n - 1), os[n].confidence)

RECURSIVE SumQuality(_, _)
SumQuality(fs, n) ==
  IF n = 0 THEN Zero ELSE FracAdd(SumQuality(fs, n - 1), Frac(fs[n].quality, 100))

(* getQuality without the cap of the frame-count term at 1. *)
QualityUnsaturated(fs, os) ==
  IF Len(fs) < 2 THEN Zero
  ELSE FracAdd(FracAdd(FracMul(Frac(Len(fs), 20), Frac(4, 10)),
                       FracMul(IF Len(os) > 0
                                 THEN FracDivInt(SumConfidence(os, Len(os)), Len(os))
                                 ELSE Zero, Frac(3, 10))),
               FracMul(FracDivInt(SumQuality(fs, Len(fs)), Len(fs)), Frac(3, 10)))

(* getQuality() of a stitcher whose frames are fs and overlaps os. *)
Quality(fs, os) ==
  IF Len(fs) < 2 THEN Zero
  ELSE LET frameScore == FracMin(One, Frac(Len(fs), 20))
           avgOverlapConfidence ==
             IF Len(os) > 0
               THEN FracDivInt(SumConfidence(os, Len(os)), Len(os))
               ELSE Zero
           avgFrameQuality == FracDivInt(SumQuality(fs, Len(fs)), Len(fs))
       IN FracAdd(FracAdd(FracMul(frameScore, Frac(4, 10)),
                          FracMul(avgOverlapConfidence, Frac(3, 10))),
                  FracMul(avgFrameQuality, Frac(3, 10)))

getQuality == Quality(frames, overlaps)

---------------------------------------------------------------------------
(* clear *)

(* A clear that keeps the stored overlaps. *)
clearKeepsOverlaps ==
  /\ frames' = <<>>
  /\ composition' = 0
  /\ transforms' = <<>>
  /\ ret' = Result("clear", "ok", 0, NoFrame, 0, 0, FALSE)
  /\ heap' = Collect(heap, frames', composition', ret')
  /\ UNCHANGED overlaps

(* A clear that keeps the cached composite. *)
clearKeepsComposition ==
  /\ frames' = <<>>
  /\ transforms' = <<>>
  /\ overlaps' = <<>>
  /\ ret' = Result("clear", "ok", 0, NoFrame, 0, 0, FALSE)
  /\ heap' = Collect(heap, frames', composition, ret')
  /\ UNCHANGED composition

clear ==
  /\ frames' = <<>>
  /\ composition' = 0
  /\ transforms' = <<>>
  /\ overlaps' = <<>>
  /\ ret' = Result("clear", "ok", 0, NoFrame, 0, 0, FALSE)
  /\ heap' = Collect(heap, frames', composition', ret')

---------------------------------------------------------------------------
(* stitch *)

Padding == 20

CropPadding == 10

(* Assigning v to canvas.width or canvas.height: the attribute is an       *)
(* unsigned long that falls back to its default for a negative value.      *)
CanvasDim(v, default) == IF v < 0 THEN default ELSE v

(* One draw call on the composite: the source canvas (0 for a fill), the   *)
(* destination rectangle and 10 * globalAlpha.                             *)
Draw(op, src, x, y, w, h, alpha) ==
  [op |-> op, src |-> src, x |-> x, y |-> y, width |-> w, height |-> h,
   alpha |-> alpha]

(* Lines 294-299: the regions found for the pairs i, i+1 (1-based) on. *)
RECURSIVE DetectFrom(_)
DetectFrom(i) ==
  IF ~(i < Len(frames)) THEN <<>>
  ELSE detectOverlap(frames[i], frames[i + 1]) \o DetectFrom(i + 1)

(* this.overlaps[i - 1] for the frame at 0-based position i >= 1, as a     *)
(* sequence: <<>> is undefined.                                            *)
OverlapAt(found, i) == IF i <= Len(found) THEN <<found[i]>> ELSE <<>>

(* Lines 305-312 from 0-based position i on. *)
RECURSIVE SizeFrom(_, _, _, _)
SizeFrom(found, i, totalWidth, maxHeight) ==
  IF ~(i < Len(frames)) THEN [totalWidth |-> totalWidth, maxHeight |-> maxHeight]
  ELSE LET overlap == OverlapAt(found, i)
           overlapWidth == IF overlap # <<>> THEN overlap[1].width ELSE 0
           frameContribution == heap[frames[i + 1].canvas].width - (overlapWidth * 5) \div 10
       IN SizeFrom(found, i + 1, totalWidth + frameContribution,
                   Max(maxHeight, heap[frames[i + 1].canvas].height))

(* The draw calls of blendFrames; frame1 and frame2 are canvas references. *)
blendFrames(frame1, frame2, overlap, xOffset, yOffset) ==
  LET overlapX == xOffset + overlap.x
      overlapY == yOffset + overlap.y
      blendWidth == overlap.width
  IN << Draw("drawImage", frame1, xOffset, yOffset,
             heap[frame1].width, heap[frame1].height, 10),
        Draw("fillRect", 0, overlapX, overlapY, blendWidth, overlap.height, 5),
        Draw("drawImage", frame2, xOffset + heap[frame1].width - overlap.width,
             yOffset + overlap.y, heap[frame2].width, heap[frame2].height, 7) >>

(* Lines 332-361 from 0-based position i on: the draw calls made and the   *)
(* transforms set.                                                         *)
RECURSIVE PlaceFrom(_, _, _, _, _)
PlaceFrom(found, i, currentX, layers, tf) ==
  IF ~(i < Len(frames)) THEN [layers |-> layers, transforms |-> tf]
  ELSE LET frame == frames[i + 1]
           canvas == heap[frame.canvas]
           transform == [tx |-> currentX, ty |-> Padding, scale |-> 1]
           tf2 == (frame.id :> transform) @@ tf
       IN IF i = 0
            THEN PlaceFrom(found, i + 1, currentX + canvas.width,
                           layers \o <<Draw("drawImage", frame.canvas, currentX, Padding,
                                            canvas.width, canvas.height, 10)>>, tf2)
            ELSE LET prevFrame == frames[i]
                     overlap == OverlapAt(found, i)
                 IN IF overlap # <<>>
                      THEN PlaceFrom(found, i + 1,
                                     currentX + canvas.width - (overlap[1].width * 7) \div 10,
                                     layers \o blendFrames(prevFrame.canvas, frame.canvas, overlap[1],
                                                           currentX - heap[prevFrame.canvas].width, Padding),
                                     tf2)
                      ELSE PlaceFrom(found, i + 1, currentX + canvas.width,
                                     layers \o <<Draw("drawImage", frame.canvas, currentX, Padding,
                                                      canvas.width, canvas.height, 10)>>, tf2)

(* A pixel of the composite as the scan of cropToContent reads it.  The    *)
(* canvas was filled with opaque white and every later draw is source-over *)
(* onto opaque pixels, so alpha is 255 everywhere; rgb is 255 where only   *)
(* the fill shows.                                                         *)
BackgroundPixel == <<255, 255, 255, 255>>

IsContent(px) == ~(px[1] > 240 /\ px[2] > 240 /\ px[3] > 240) \/ px[4] > 200

(* A scan that finds no pixel passing the test: the bounds keep their       *)
(* initial values.                                                         *)
ContentBoundsNone(canvas) ==
  [minX |-> canvas.width, maxX |-> 0, minY |-> canvas.height, maxY |-> 0]

(* Lines 380-403: the bounds over the pixels that pass the test.  Every    *)
(* pixel has the alpha of the fill, so the test gives the same answer at   *)
(* each pixel of a canvas that has any.                                    *)
ContentBounds(canvas) ==
  IF canvas.width > 0 /\ canvas.height > 0 /\ IsContent(BackgroundPixel)
    THEN [minX |-> 0, maxX |-> canvas.width - 1, minY |-> 0, maxY |-> canvas.height - 1]
    ELSE [minX |-> canvas.width, maxX |-> 0, minY |-> canvas.height, maxY |-> 0]

(* cropToContent: same tells that the argument itself is returned;         *)
(* croppedCtx is whether the new canvas yields a drawing surface.          *)
cropToContent(canvas, croppedCtx) ==
  IF ~canvas.ctx THEN [same |-> TRUE, canvas |-> canvas]
  ELSE LET b == ContentBounds(canvas)
           minX == Max(0, b.minX - CropPadding)
           minY == Max(0, b.minY - CropPadding)
           maxX == Min(canvas.width, b.maxX + CropPadding)
           maxY == Min(canvas.height, b.maxY + CropPadding)
       IN [same |-> FALSE,
           canvas |->
             [width  |-> CanvasDim(maxX - minX, 300),
              height |-> CanvasDim(maxY - minY, 150),
              kind   |-> IF croppedCtx THEN "cropped" ELSE "blank",
              layers |-> IF croppedCtx THEN canvas.layers ELSE <<>>,
              crop   |-> IF croppedCtx THEN <<minX, minY, maxX - minX, maxY - minY>> ELSE <<>>,
              ctx    |-> croppedCtx]]

(* A stitch that treats no frames as success. *)
stitchEmptySucceeds ==
  /\ Len(frames) = 0
  /\ ret' = Result("stitch", "ok", 0, NoFrame, 0, 0, FALSE)
  /\ heap' = Collect(heap, frames, composition, ret')
  /\ UNCHANGED <<frames, composition, transforms, overlaps>>

(* Lines 283-285 *)
stitchEmpty ==
  /\ Len(frames) = 0
  /\ ret' = Result("stitch", "EmptyInputError", 0, NoFrame, 0, 0, FALSE)
  /\ heap' = Collect(heap, frames, composition, ret')
  /\ UNCHANGED <<frames, composition, transforms, overlaps>>

(* A stitch that pads a single frame like a composite. *)
stitchSinglePadded ==
  /\ Len(frames) = 1
  /\ LET canvas == heap[frames[1].canvas]
         padded == [canvas EXCEPT !.width = canvas.width + Padding * 2,
                                  !.height = canvas.height + Padding * 2,
                                  !.kind = "composite"]
     IN /\ composition' = CompositeRef
        /\ ret' = Result("stitch", "ok", CompositeRef, NoFrame, padded.width, padded.height, FALSE)
        /\ heap' = Collect((CompositeRef :> padded) @@ heap, frames, composition', ret')
  /\ UNCHANGED <<frames, transforms, overlaps>>

(* Lines 287-290 *)
stitchSingle ==
  /\ Len(frames) = 1
  /\ ret' = Result("stitch", "ok", frames[1].canvas, NoFrame, 0, 0, FALSE)
  /\ heap' = Collect(heap, frames, composition, ret')
  /\ UNCHANGED <<frames, composition, transforms, overlaps>>

(* A failure that throws the accumulated frames away. *)
stitchFailsDropsFrames(found, width, height) ==
  /\ overlaps' = found
  /\ frames' = <<>>
  /\ ret' = Result("stitch", "RenderSurfaceError", 0, NoFrame, width, height, TRUE)
  /\ heap' = Collect(heap, frames', composition, ret')
  /\ UNCHANGED <<composition, transforms>>

(* Lines 320-323: no drawing surface for the composite canvas. *)
stitchFails(found, width, height) ==
  /\ overlaps' = found
  /\ ret' = Result("stitch", "RenderSurfaceError", 0, NoFrame, width, height, TRUE)
  /\ heap' = Collect(heap, frames, composition, ret')
  /\ UNCHANGED <<frames, composition, transforms>>

(* Lines 325-367: drawn is the composite canvas after the draw loop,       *)
(* croppedCtx whether the cropped canvas yields a drawing surface.         *)
stitchCompletes(found, drawn, tf, croppedCtx) ==
  LET cropped == cropToContent(drawn, croppedCtx)
  IN /\ overlaps' = found
     /\ transforms' = tf
     /\ composition' = CompositeRef
     /\ ret' = Result("stitch", "ok", CompositeRef, NoFrame, drawn.width, drawn.height,
                      ~croppedCtx)
     /\ heap' = Collect((CompositeRef :> cropped.canvas) @@ heap, frames, composition', ret')
     /\ UNCHANGED frames

(* Lines 292-368.  compositionCtx: whether getContext('2d') yields a       *)
(* surface for the composite canvas.                                       *)
stitchMany ==
  /\ Len(frames) > 1
  /\ LET found == DetectFrom(1)
         size == SizeFrom(found, 1, heap[frames[1].canvas].width,
                          heap[frames[1].canvas].height)
         width == CanvasDim(size.totalWidth + Padding * 2, 300)
         height == CanvasDim(size.maxHeight + Padding * 2, 150)
         placed == PlaceFrom(found, 0, Padding, <<>>, transforms)
         drawn == [width |-> width, height |-> height, kind |-> "composite",
                   layers |-> placed.layers, crop |-> <<>>, ctx |-> TRUE]
     IN \E compositionCtx \in BOOLEAN, croppedCtx \in BOOLEAN :
          IF ~compositionCtx
            THEN stitchFails(found, width, height)
            ELSE stitchCompletes(found, drawn, placed.transforms, croppedCtx)

stitch ==
  \/ stitchEmpty
  \/ stitchSingle
  \/ stitchMany

---------------------------------------------------------------------------
(* StudyModePage.  A handler and the effects its state changes trigger run *)
(* as one step; the handlers are those of the toolbar buttons and of the   *)
(* canvas.  State updates queued by one handler are applied in the order   *)
(* they were queued.                                                       *)

(* The most strokes on the page and the longest undo stack when a drawing  *)
(* is added, and the most board images loading at once.                    *)
MaxStrokes == 2

MaxUndo == 2

MaxLoads == 1

Strokes == {"s1"}

Boards == <<"b1", "b2">>

(* What the server holds for handleLoadAnnotations. *)
SavedAnnotations == { <<"s1">> }

Trail(event, undoKeys, redoKeys, base, undos, redos) ==
  [event |-> event, undoKeys |-> undoKeys, redoKeys |-> redoKeys,
   base |-> base, undos |-> undos, redos |-> redos]

InitPage ==
  /\ sampleBoards = <<>>
  /\ selectedBoardId = ""
  /\ boardSide = "front"
  /\ annotationsByBoard = <<>>
  /\ annotations = <<>>
  /\ undoStack = <<>>
  /\ redoStack = <<>>
  /\ imagesLoading = 0
  /\ hist = Trail("mount", <<>>, <<>>, <<>>, 0, 0)

(* `${selectedBoardId}-${boardSide}`: the side is what follows the last    *)
(* hyphen, so the string names the pair.                                   *)
BoardKey(id, side) == <<id, side>>

boardKey == BoardKey(selectedBoardId, boardSide)

AnnotationsOf(byBoard, key) ==
  IF key \in DOMAIN byBoard THEN byBoard[key] ELSE <<>>

getCurrentAnnotations == AnnotationsOf(annotationsByBoard, boardKey)

setCurrentAnnotations(newAnnotations) ==
  /\ annotationsByBoard' = (boardKey :> newAnnotations) @@ annotationsByBoard
  /\ annotations' = newAnnotations

(* prev.slice(0, -1) *)
DropLast(prev) == SubSeq(prev, 1, Len(prev) - 1)

(* The stacks after the updates addToUndoStack queues. *)
addToUndoStack(currentAnnotations) ==
  [undoStack |-> Append(undoStack, currentAnnotations), redoStack |-> <<>>]

addToRedoStack(annotationsToRedo) == Append(redoStack, annotationsToRedo)

(* Lines 204-207, run after the board or the side became id, side. *)
SyncAnnotations(id, side) ==
  annotations' = AnnotationsOf(annotationsByBoard, BoardKey(id, side))

(* Lines 183-196 with the effects of the new selection; the load effect    *)
(* starts an image for the selected board.                                 *)
loadSampleBoards ==
  /\ sampleBoards = <<>>
  /\ sampleBoards' = Boards
  /\ selectedBoardId' = Boards[1]
  /\ SyncAnnotations(Boards[1], boardSide)
  /\ imagesLoading' = imagesLoading + 1
  /\ hist' = Trail("loadSampleBoards", hist.undoKeys, hist.redoKeys, <<>>, 0, 0)
  /\ UNCHANGED <<boardSide, annotationsByBoard, undoStack, redoStack>>

(* Line 906 *)
selectBoard(id) ==
  /\ hist' = Trail("selectBoard", hist.undoKeys, hist.redoKeys, <<>>, 0, 0)
  /\ IF id = selectedBoardId
       THEN UNCHANGED <<selectedBoardId, annotations, imagesLoading>>
       ELSE /\ selectedBoardId' = id
            /\ SyncAnnotations(id, boardSide)
            /\ imagesLoading' = imagesLoading + 1
  /\ UNCHANGED <<sampleBoards, boardSide, annotationsByBoard, undoStack, redoStack>>

(* Lines 875 and 884 *)
toggleSide(side) ==
  /\ hist' = Trail("toggleSide", hist.undoKeys, hist.redoKeys, <<>>, 0, 0)
  /\ IF side = boardSide
       THEN UNCHANGED <<boardSide, annotations>>
       ELSE /\ boardSide' = side
            /\ SyncAnnotations(selectedBoardId, side)
  /\ UNCHANGED <<sampleBoards, selectedBoardId, annotationsByBoard, undoStack,
                 redoStack, imagesLoading>>

(* Lines 261-295 *)
imgOnload ==
  /\ imagesLoading > 0
  /\ imagesLoading' = imagesLoading - 1
  /\ undoStack' = <<>>
  /\ redoStack' = <<>>
  /\ hist' = Trail("imgOnload", <<>>, <<>>, <<>>, 0, 0)
  /\ UNCHANGED <<sampleBoards, selectedBoardId, boardSide, annotationsByBoard, annotations>>

(* Lines 296-305 *)
imgOnerror ==
  /\ imagesLoading > 0
  /\ imagesLoading' = imagesLoading - 1
  /\ hist' = Trail("imgOnerror", hist.undoKeys, hist.redoKeys, <<>>, 0, 0)
  /\ UNCHANGED <<sampleBoards, selectedBoardId, boardSide, annotationsByBoard,
                 annotations, undoStack, redoStack>>

(* Lines 764-817, for a stroke that is kept. *)
handleCanvasMouseUp(currentStroke) ==
  LET newAnnotations == Append(getCurrentAnnotations, currentStroke)
      added == addToUndoStack(getCurrentAnnotations)
  IN /\ undoStack' = added.undoStack
     /\ redoStack' = added.redoStack
     /\ setCurrentAnnotations(newAnnotations)
     /\ hist' = Trail("handleCanvasMouseUp", Append(hist.undoKeys, boardKey), <<>>, <<>>, 0, 0)
     /\ UNCHANGED <<sampleBoards, selectedBoardId, boardSide, imagesLoading>>

(* Lines 107-114 *)
handleUndo ==
  IF Len(undoStack) = 0
    THEN /\ hist' = Trail("handleUndo", hist.undoKeys, hist.redoKeys, <<>>, 0, 0)
         /\ UNCHANGED <<sampleBoards, selectedBoardId, boardSide, annotationsByBoard,
                        annotations, undoStack, redoStack, imagesLoading>>
    ELSE LET previousState == undoStack[Len(undoStack)]
             fresh == hist.undos = 0 \/ hist.redos > 0
         IN /\ redoStack' = addToRedoStack(getCurrentAnnotations)
            /\ undoStack' = DropLast(undoStack)
            /\ setCurrentAnnotations(previousState)
            /\ hist' = Trail("handleUndo", DropLast(hist.undoKeys),
                             Append(hist.redoKeys, boardKey),
                             IF fresh THEN getCurrentAnnotations ELSE hist.base,
                             IF fresh THEN 1 ELSE hist.undos + 1, 0)
            /\ UNCHANGED <<sampleBoards, selectedBoardId, boardSide, imagesLoading>>

(* Lines 116-123 *)
handleRedo ==
  LET counted == hist.undos > 0 /\ hist.redos < hist.undos
      base  == IF counted THEN hist.base ELSE <<>>
      undos == IF counted THEN hist.undos ELSE 0
      redos == IF counted THEN hist.redos + 1 ELSE 0
  IN IF Len(redoStack) = 0
       THEN /\ hist' = Trail("handleRedo", hist.undoKeys, hist.redoKeys, base, undos, redos)
            /\ UNCHANGED <<sampleBoards, selectedBoardId, boardSide, annotationsByBoard,
                           annotations, undoStack, redoStack, imagesLoading>>
       ELSE LET nextState == redoStack[Len(redoStack)]
                added == addToUndoStack(getCurrentAnnotations)
            IN /\ undoStack' = added.undoStack
               /\ redoStack' = DropLast(added.redoStack)
               /\ setCurrentAnnotations(nextState)
               /\ hist' = Trail("handleRedo", Append(hist.undoKeys, boardKey), <<>>,
                                base, undos, redos)
               /\ UNCHANGED <<sampleBoards, selectedBoardId, boardSide, imagesLoading>>

(* Lines 151-170, for a board that has saved annotations. *)
handleLoadAnnotations(saved) ==
  /\ selectedBoardId # ""
  /\ setCurrentAnnotations(saved)
  /\ undoStack' = <<>>
  /\ redoStack' = <<>>
  /\ hist' = Trail("handleLoadAnnotations", <<>>, <<>>, <<>>, 0, 0)
  /\ UNCHANGED <<sampleBoards, selectedBoardId, boardSide, imagesLoading>>

(* Lines 1171-1175 *)
clearAll ==
  /\ setCurrentAnnotations(<<>>)
  /\ undoStack' = <<>>
  /\ redoStack' = <<>>
  /\ hist' = Trail("clearAll", <<>>, <<>>, <<>>, 0, 0)
  /\ UNCHANGED <<sampleBoards, selectedBoardId, boardSide, imagesLoading>>

---------------------------------------------------------------------------
(* ScanModePage.  A handler and the render that follows it run as one      *)
(* step.  BoardStitcher.stitch is declared async but holds no await: its   *)
(* body runs inside the stopScan call that invokes it, and stopScan is     *)
(* resumed after its own await (line 91) before any other handler runs.    *)
(* The body is taken in steps here, so that what could come between them   *)
(* is decided by Dispatchable alone.                                       *)

(* The most frames one side's stitcher holds. *)
MaxScanFrames == 3

Sides == {"front", "back"}

Task(side, pc, called, outcome, value) ==
  [side |-> side, pc |-> pc, called |-> called, outcome |-> outcome, value |-> value]

NoTask == Task("none", "idle", <<>>, "", <<>>)

InitScan ==
  /\ scanState = [isScanning |-> FALSE, side |-> "none", status |-> "idle",
                  cameraError |-> FALSE]
  /\ frameCounter = [side \in Sides |-> 0]
  /\ stitchers = [side \in Sides |-> [frames |-> <<>>, overlaps |-> <<>>, composition |-> <<>>]]
  /\ capturedFrames = [side \in Sides |-> <<>>]
  /\ task = NoTask

(* A handler that would run while a call is under way. *)
DispatchableAnytime == TRUE

(* The event loop runs a handler only when no call is under way. *)
Dispatchable == task.pc = "idle"

(* The Start Scan button of a side is rendered (lines 304-325). *)
StartShown(side) ==
  /\ ~(scanState.side = side /\ scanState.isScanning)
  /\ capturedFrames[side] = <<>>

(* The Stop Scanning button is rendered (lines 304-317). *)
StopShown == scanState.side \in Sides /\ scanState.isScanning

(* CameraView is rendered and calls onFrame and onError (lines 390-395). *)
CameraShown == scanState.isScanning /\ ~scanState.cameraError

startScan(side) ==
  /\ scanState' = [isScanning |-> TRUE, side |-> side, status |-> "capturing",
                   cameraError |-> FALSE]
  /\ frameCounter' = [frameCounter EXCEPT ![side] = 0]
  /\ UNCHANGED <<stitchers, capturedFrames, task>>

handleCameraError ==
  /\ scanState' = [scanState EXCEPT !.isScanning = FALSE, !.status = "error",
                                    !.cameraError = TRUE]
  /\ UNCHANGED <<frameCounter, stitchers, capturedFrames, task>>

(* The frame built has quality 0.85 or more, which addFrame accepts. *)
handleFrameCapture ==
  IF ~scanState.isScanning \/ scanState.side \notin Sides
    THEN UNCHANGED scanVars
    ELSE LET side == scanState.side
             frameIndex == frameCounter[side]
             frameId == <<side, frameIndex>>
         IN /\ stitchers' = [stitchers EXCEPT ![side].frames = Append(@, frameId)]
            /\ frameCounter' = [frameCounter EXCEPT ![side] = @ + 1]
            /\ UNCHANGED <<scanState, capturedFrames, task>>

(* Lines 81-91 with lines 283-290 of stitch(): up to the first await. *)
stopScan ==
  /\ scanState.side \in Sides
  /\ scanState' = [scanState EXCEPT !.isScanning = FALSE, !.status = "stitching"]
  /\ LET side == scanState.side
         called == stitchers[side].frames
     IN task' = IF Len(called) = 0
                  THEN Task(side, "resume", called, "EmptyInputError", <<>>)
                ELSE IF Len(called) = 1
                  THEN Task(side, "resume", called, "ok", <<called[1]>>)
                ELSE Task(side, "detect", called, "", <<>>)
  /\ UNCHANGED <<frameCounter, stitchers, capturedFrames>>

(* The pairs of the frames fs at the positions in found, in order. *)
RECURSIVE PairsFrom(_, _, _)
PairsFrom(fs, found, i) ==
  IF ~(i < Len(fs)) THEN <<>>
  ELSE (IF i \in found THEN << <<fs[i], fs[i + 1]>> >> ELSE <<>>) \o PairsFrom(fs, found, i + 1)

(* Lines 292-299 of stitch(): the overlaps of the frames now stored; which *)
(* pairs correlate depends on the pixels captured.                         *)
stitchDetects ==
  /\ task.pc = "detect"
  /\ LET fs == stitchers[task.side].frames
     IN \E found \in SUBSET (1..(Len(fs) - 1)) :
          stitchers' = [stitchers EXCEPT ![task.side].overlaps = PairsFrom(fs, found, 1)]
  /\ task' = [task EXCEPT !.pc = "compose"]
  /\ UNCHANGED <<scanState, frameCounter, capturedFrames>>

(* Lines 301-367 of stitch(): the frames now stored are drawn and the      *)
(* result is stored, or getContext('2d') gives null and stitch() throws.   *)
stitchComposes ==
  /\ task.pc = "compose"
  /\ LET fs == stitchers[task.side].frames
     IN \E compositionCtx \in BOOLEAN :
          IF compositionCtx
            THEN /\ stitchers' = [stitchers EXCEPT ![task.side].composition = <<fs>>]
                 /\ task' = [task EXCEPT !.pc = "resume", !.outcome = "ok", !.value = fs]
            ELSE /\ task' = [task EXCEPT !.pc = "resume", !.outcome = "RenderSurfaceError"]
                 /\ UNCHANGED stitchers
  /\ UNCHANGED <<scanState, frameCounter, capturedFrames>>

(* Lines 92-111: stopScan after its await. *)
stopScanResumes ==
  /\ task.pc = "resume"
  /\ IF task.outcome = "ok"
       THEN /\ scanState' = [scanState EXCEPT !.status = "idle"]
            /\ capturedFrames' = [capturedFrames EXCEPT ![task.side] = <<task.value>>]
       ELSE /\ scanState' = [scanState EXCEPT !.status = "error"]
            /\ UNCHANGED capturedFrames
  /\ task' = NoTask
  /\ UNCHANGED <<frameCounter, stitchers>>

---------------------------------------------------------------------------
(* useCamera.  startCamera awaits getUserMedia; what runs before the await *)
(* is one step and what runs after it another, taken when the request is   *)
(* settled.                                                                *)

(* The most getUserMedia requests issued and not rejected. *)
MaxRequests == 4

InitCamera ==
  /\ lifecycle = "new"
  /\ streamRef = 0
  /\ requests = 0
  /\ tracks = <<>>
  /\ isActive = FALSE
  /\ stopped = FALSE

(* Lines 32-48: startCamera up to its await; available tells whether       *)
(* navigator.mediaDevices.getUserMedia exists.                             *)
startCamera(available) ==
  /\ requests' = IF available THEN requests + 1 ELSE requests
  /\ isActive' = IF available THEN isActive ELSE FALSE
  /\ stopped' = FALSE
  /\ UNCHANGED <<streamRef, tracks>>

(* Lines 65-67: the tracks of the stream in streamRef.current are stopped. *)
StopTracks(ts, ref) == IF ref = 0 THEN ts ELSE [ts EXCEPT ![ref] = "stopped"]

stopCamera ==
  /\ tracks' = StopTracks(tracks, streamRef)
  /\ isActive' = FALSE
  /\ stopped' = TRUE
  /\ UNCHANGED <<streamRef, requests>>

(* Lines 91-96, first run: the component is mounted and the camera started. *)
mountCamera(available) ==
  /\ lifecycle = "new"
  /\ lifecycle' = "mounted"
  /\ startCamera(available)

(* Lines 91-96 when startCamera has changed: cleanup, then the effect. *)
effectReruns(available) ==
  /\ lifecycle = "mounted"
  /\ tracks' = StopTracks(tracks, streamRef)
  /\ requests' = IF available THEN requests + 1 ELSE requests
  /\ isActive' = FALSE
  /\ stopped' = FALSE
  /\ UNCHANGED <<lifecycle, streamRef>>

(* Line 95 at unmount; videoRef.current is null from then on. *)
unmountCamera ==
  /\ lifecycle = "mounted"
  /\ lifecycle' = "unmounted"
  /\ stopCamera

(* Lines 42-55: getUserMedia gives a stream, whose tracks are live. *)
getUserMediaResolves ==
  /\ requests > 0
  /\ requests' = requests - 1
  /\ tracks' = Append(tracks, "live")
  /\ IF lifecycle = "mounted"
       THEN streamRef' = Len(tracks) + 1 /\ isActive' = TRUE
       ELSE UNCHANGED <<streamRef, isActive>>
  /\ UNCHANGED <<lifecycle, stopped>>

(* Lines 56-61: getUserMedia fails. *)
getUserMediaRejects ==
  /\ requests > 0
  /\ requests' = requests - 1
  /\ isActive' = FALSE
  /\ UNCHANGED <<lifecycle, streamRef, tracks, stopped>>

---------------------------------------------------------------------------
(* useComponentDetection.  A string is the sequence of its characters; a   *)
(* word is [text, confidence], the confidence in hundredths, and a         *)
(* detected component [label, confidence, isMatch, ref], its confidence in *)
(* hundredths too, that of an averaged component the pair of the sum and   *)
(* the count it is the quotient of.  The bounding box of a word is carried *)
(* along and averaged; nothing is decided by it.                           *)

(* The most renders the parent of the hook causes. *)
MaxRenders == 4

ConfidenceThreshold == 50

StabilizationFrames == 3

SimilarityThreshold == Frac(7, 10)

toLowerCase(c) == IF c = "R" THEN "r" ELSE c

(* matrix[j][i] of calculateLevenshtein for the strings a and b. *)
RECURSIVE Levenshtein(_, _, _, _)
Levenshtein(a, b, i, j) ==
  IF j = 0 THEN i
  ELSE IF i = 0 THEN j
  ELSE IF toLowerCase(b[j]) = toLowerCase(a[i]) THEN Levenshtein(a, b, i - 1, j - 1)
  ELSE Min(Levenshtein(a, b, i - 1, j - 1) + 1,
           Min(Levenshtein(a, b, i - 1, j) + 1, Levenshtein(a, b, i, j - 1) + 1))

calculateLevenshtein(str1, str2) == Levenshtein(str1, str2, Len(str1), Len(str2))

calculateSimilarity(text, query) ==
  IF query = <<>> \/ text = <<>> THEN Zero
  ELSE LET distance == calculateLevenshtein(text, query)
           maxLen == Max(Len(text), Len(query))
       IN IF distance >= maxLen THEN Zero
          ELSE [num |-> maxLen - distance, den |-> maxLen]

Word(text, confidence) == [text |-> text, confidence |-> confidence]

(* Lines 201-216 from word k on; bestMatch is <<>> for null. *)
RECURSIVE BestMatchFrom(_, _, _, _, _)
BestMatchFrom(query, words, k, bestMatch, bestSimilarity) ==
  IF k > Len(words) THEN bestMatch
  ELSE LET word == words[k]
           similarity == calculateSimilarity(word.text, query)
       IN IF word.confidence >= ConfidenceThreshold /\ FracLess(bestSimilarity, similarity)
            THEN BestMatchFrom(query, words, k + 1,
                               << [label |-> word.text, confidence |-> word.confidence,
                                   isMatch |-> FracLess(SimilarityThreshold, similarity),
                                   ref |-> 0] >>,
                               similarity)
            ELSE BestMatchFrom(query, words, k + 1, bestMatch, bestSimilarity)

(* The query holds no blanks here, so trim() leaves it as it is. *)
detectComponent(query, words) ==
  IF query = <<>> \/ Len(words) = 0 THEN <<>>
  ELSE BestMatchFrom(query, words, 1, <<>>, Zero)

(* Lines 226-229: the history after the push and the shift. *)
Pushed(history, detected) ==
  LET pushed == Append(history, detected)
  IN IF Len(pushed) > StabilizationFrames THEN Tail(pushed) ELSE pushed

ValidDetections(history) ==
  SelectSeq(history, LAMBDA d : d # <<>> /\ d[1].isMatch)

(* validDetections.reduce((sum, d) => sum + d.confidence, 0) *)
SumOfConfidence(ds) ==
  LET sum[k \in 0..Len(ds)] ==
        IF k = 0 THEN 0 ELSE sum[k - 1] + ds[k][1].confidence
  IN sum[Len(ds)]

(* Lines 232-262 on the history as pushed: <<>> for null, else the         *)
(* averaged component, an object made by this call and so none that was    *)
(* made before: its ref differs from that of the component now matched.    *)
SmoothedResult(history, matched) ==
  LET validDetections == ValidDetections(history)
  IN IF 2 * Len(validDetections) >= StabilizationFrames
       THEN << [label |-> validDetections[1][1].label,
                confidence |-> <<SumOfConfidence(validDetections), Len(validDetections)>>,
                isMatch |-> TRUE,
                ref |-> IF matched # <<>> /\ matched[1].ref = 1 THEN 2 ELSE 1] >>
       ELSE <<>>

(* Lines 307-310: one run of the body of the hook, with the component      *)
(* matched held in state as it is given.                                   *)
RenderWith(query, words, matched) ==
  LET history == Pushed(historyRef, detectComponent(query, words))
      smoothedComponent == SmoothedResult(history, matched)
  IN /\ searchQuery' = query
     /\ ocrWords' = words
     /\ historyRef' = history
     /\ matchedComponent' = matched
     /\ pendingUpdate' = IF smoothedComponent # <<>> /\ matched # smoothedComponent
                           THEN smoothedComponent ELSE <<>>

InitDetection ==
  /\ searchQuery = <<>>
  /\ ocrWords = <<>>
  /\ historyRef = <<>>
  /\ matchedComponent = <<>>
  /\ pendingUpdate = <<>>
  /\ renders = 0

Queries == { <<>>, <<"R", "1">> }

WordLists ==
  { <<>>,
    << Word(<<"r", "1">>, 90) >>,
    << Word(<<"R", "2">>, 90), Word(<<"R", "1">>, 40) >> }

(* The parent renders the hook, with the inputs it passes. *)
render(query, words) ==
  /\ renders' = renders + 1
  /\ RenderWith(query, words, matchedComponent)

(* The render React runs for the queued setMatchedComponent: the inputs    *)
(* are those of the render that queued it.                                 *)
rerender ==
  /\ pendingUpdate # <<>>
  /\ RenderWith(searchQuery, ocrWords, pendingUpdate)
  /\ UNCHANGED renders

---------------------------------------------------------------------------
Init == InitStitcher /\ InitPage /\ InitScan /\ InitCamera /\ InitDetection

Next ==
  \/ \E input \in FrameInputs :
       /\ Rejects(input) \/ Len(frames) < MaxFrames
       /\ addFrame(input)
       /\ UNCHANGED exceptStitcher
  \/ stitch /\ UNCHANGED exceptStitcher
  \/ clear /\ UNCHANGED exceptStitcher

Spec == Init /\ [][Next]_vars

(* The strokes held for all board-sides together. *)
RECURSIVE StrokeCount(_, _)
StrokeCount(byBoard, keys) ==
  IF keys = {} THEN 0
  ELSE LET k == CHOOSE key \in keys : TRUE
       IN Len(byBoard[k]) + StrokeCount(byBoard, keys \ {k})

(* The page is used once its boards are listed. *)
Ready == sampleBoards # <<>>

NextStudy ==
  \/ loadSampleBoards /\ UNCHANGED exceptPage
  \/ \E i \in 1..Len(sampleBoards) :
       /\ sampleBoards[i] = selectedBoardId \/ imagesLoading < MaxLoads
       /\ selectBoard(sampleBoards[i])
       /\ UNCHANGED exceptPage
  \/ \E side \in {"front", "back"} : Ready /\ toggleSide(side) /\ UNCHANGED exceptPage
  \/ Ready /\ imgOnload /\ UNCHANGED exceptPage
  \/ Ready /\ imgOnerror /\ UNCHANGED exceptPage
  \/ \E currentStroke \in Strokes :
       /\ Ready
       /\ StrokeCount(annotationsByBoard, DOMAIN annotationsByBoard) < MaxStrokes
       /\ Len(undoStack) < MaxUndo
       /\ handleCanvasMouseUp(currentStroke)
       /\ UNCHANGED exceptPage
  \/ Ready /\ handleUndo /\ UNCHANGED exceptPage
  \/ Ready /\ handleRedo /\ UNCHANGED exceptPage
  \/ \E saved \in SavedAnnotations :
       Ready /\ handleLoadAnnotations(saved) /\ UNCHANGED exceptPage
  \/ Ready /\ clearAll /\ UNCHANGED exceptPage

SpecStudy == Init /\ [][NextStudy]_vars

(* Long sessions: frame lists past the 20 frames at which the frame-count  *)
(* terms of getQuality and getProgress saturate.  The first frame is any   *)
(* of LongInputs, every later one is not of LongOpening, so that the lists *)
(* differ in their first frame and pair only.                              *)
LongOpening ==
  { Frame("d", 0, Canvas(60, 1, "stripes", TRUE), 90) }

LongInputs ==
  { Frame("a", 0, Canvas(60, 1, "black", TRUE), 100),
    Frame("g", 5, Canvas(60, 1, "black", TRUE), 29) } \cup LongOpening

NextLong ==
  \/ \E input \in LongInputs :
       /\ Rejects(input) \/ Len(frames) < MaxLong
       /\ input \in LongOpening => frames = <<>>
       /\ addFrame(input)
       /\ UNCHANGED exceptStitcher
  \/ stitch /\ UNCHANGED exceptStitcher
  \/ clear /\ UNCHANGED exceptStitcher

SpecLong == Init /\ [][NextLong]_vars

NextScan ==
  \/ \E side \in Sides :
       Dispatchable /\ StartShown(side) /\ startScan(side) /\ UNCHANGED exceptScan
  \/ Dispatchable /\ CameraShown /\ handleCameraError /\ UNCHANGED exceptScan
  \/ /\ Dispatchable /\ CameraShown
     /\ Len(stitchers[scanState.side].frames) < MaxScanFrames
     /\ handleFrameCapture
     /\ UNCHANGED exceptScan
  \/ Dispatchable /\ StopShown /\ stopScan /\ UNCHANGED exceptScan
  \/ stitchDetects /\ UNCHANGED exceptScan
  \/ stitchComposes /\ UNCHANGED exceptScan
  \/ stopScanResumes /\ UNCHANGED exceptScan

SpecScan == Init /\ [][NextScan]_vars

NextCamera ==
  \/ \E available \in BOOLEAN : mountCamera(available) /\ UNCHANGED exceptCamera
  \/ \E available \in BOOLEAN :
       /\ lifecycle = "mounted"
       /\ Len(tracks) + requests < MaxRequests
       /\ startCamera(available)
       /\ UNCHANGED <<lifecycle, exceptCamera>>
  \/ lifecycle = "mounted" /\ stopCamera /\ UNCHANGED <<lifecycle, exceptCamera>>
  \/ \E available \in BOOLEAN :
       /\ Len(tracks) + requests < MaxRequests
       /\ effectReruns(available)
       /\ UNCHANGED exceptCamera
  \/ unmountCamera /\ UNCHANGED exceptCamera
  \/ getUserMediaResolves /\ UNCHANGED exceptCamera
  \/ getUserMediaRejects /\ UNCHANGED exceptCamera

SpecCamera == Init /\ [][NextCamera]_vars

NextDetection ==
  \/ \E query \in Queries, words \in WordLists :
       /\ pendingUpdate = <<>>
       /\ renders < MaxRenders
       /\ render(query, words)
       /\ UNCHANGED exceptDetection
  \/ rerender /\ UNCHANGED exceptDetection

(* React runs the render of a queued update without waiting. *)
SpecDetection ==
  Init /\ [][NextDetection]_vars /\ WF_vars(rerender /\ UNCHANGED exceptDetection)

---------------------------------------------------------------------------
(* Properties *)

(* What getFrames() and getComposition() show is the same in both states   *)
(* of a step: the same references, naming canvases with the same content.  *)
SameFrames ==
  /\ frames' = frames
  /\ \A i \in 1..Len(frames) : heap'[frames[i].canvas] = heap[frames[i].canvas]

SameComposition ==
  /\ composition' = composition
  /\ composition # 0 => heap'[composition] = heap[composition]

(* C1: addFrame with a frame of quality below 0.3 returns normally and     *)
(* leaves getFrameCount(), getFrames(), getQuality(), getProgress() and    *)
(* getComposition() as they were.                                          *)
C1_RejectedFrameChangesNothing ==
  [][(ret'.op = "addFrame" /\ ret'.arg.quality < 30) =>
       /\ ret'.outcome = "ok"
       /\ getFrameCount' = getFrameCount
       /\ getFrames' = getFrames
       /\ SameFrames
       /\ Quality(frames', overlaps') = Quality(frames, overlaps)
       /\ Progress(frames', overlaps') = Progress(frames, overlaps)
       /\ getComposition' = getComposition
       /\ SameComposition]_vars

C1_Witness ==
  /\ ret.op = "addFrame" /\ ret.arg.quality < 30
  /\ Len(frames) >= 2 /\ Len(overlaps) > 0 /\ composition # 0

(* C2: stitch() with no stored frame throws the empty-input error, returns *)
(* no canvas and leaves frames, overlaps and the composition unchanged.    *)
C2_EmptyStitchFails ==
  [][(ret'.op = "stitch" /\ Len(frames) = 0) =>
       /\ ret'.outcome = "EmptyInputError"
       /\ ret'.value = 0
       /\ frames' = frames
       /\ overlaps' = overlaps
       /\ composition' = composition]_vars

C2_Witness ==
  ret.op = "stitch" /\ ret.outcome = "EmptyInputError" /\ Len(frames) = 0

(* C3: with exactly one stored frame stitch() succeeds and the canvas it   *)
(* returns has the size and the content of that frame's canvas.            *)
C3_SingleFrameReturnedAsIs ==
  [][(ret'.op = "stitch" /\ Len(frames) = 1) =>
       /\ ret'.outcome = "ok"
       /\ ret'.value # 0
       /\ heap'[ret'.value] = heap[frames[1].canvas]
       /\ SameFrames]_vars

C3_Witness ==
  ret.op = "stitch" /\ ret.outcome = "ok" /\ Len(frames) = 1

(* C4: a multi-frame stitch() during which no drawing surface could be had *)
(* for the composite canvas or for the cropped canvas throws the           *)
(* render-surface error and returns no canvas.                             *)
C4_NoSurfaceFailsStitch ==
  (ret.op = "stitch" /\ ret.noSurface) =>
    (ret.outcome = "RenderSurfaceError" /\ ret.value = 0)

(* C5: a stitch() that fails leaves the stored frame list, and the         *)
(* canvases of the frames, as they were.                                   *)
C5_FailedStitchKeepsFrames ==
  [][(ret'.op = "stitch" /\ ret'.outcome # "ok") => SameFrames]_vars

C5_Witness ==
  ret.op = "stitch" /\ ret.outcome = "RenderSurfaceError" /\ Len(frames) >= 2

(* C6: getQuality() is within [0, 1] and getProgress() within [0, 100]     *)
(* in every reachable state.                                               *)
C6_QualityAndProgressInRange ==
  /\ FracLeq(Zero, getQuality) /\ FracLeq(getQuality, One)
  /\ FracLeq(Zero, getProgress) /\ FracLeq(getProgress, Frac(100, 1))

C6_Witness ==
  /\ Len(frames) > 20 /\ Len(overlaps) = Len(frames) - 1
  /\ getQuality = One /\ getProgress = Frac(100, 1)

(* C7: every region that overlap detection returns, and so every stored    *)
(* overlap, has a confidence of at least 0.5 and at most 1, and a pair     *)
(* whose best score is below 0.5 yields no region.                         *)
Confident(o) ==
  FracLeq(Frac(1, 2), o.confidence) /\ FracLeq(o.confidence, One)

C7_OverlapsConfident ==
  /\ \A i \in 1..Len(overlaps) : Confident(overlaps[i])
  /\ \A i \in 1..(Len(frames) - 1) :
       LET region == detectOverlap(frames[i], frames[i + 1])
           canvas1 == heap[frames[i].canvas]
           canvas2 == heap[frames[i + 1].canvas]
       IN /\ region # <<>> => Confident(region[1])
          /\ (canvas1.ctx /\ canvas2.ctx
              /\ FracLess(SearchMemo[ContentKey(canvas1)][ContentKey(canvas2)].bestScore,
                          Frac(1, 2)))
             => region = <<>>

C7_Witness ==
  /\ Len(frames) = 3 /\ Len(overlaps) = 1 /\ ret.op = "stitch"
  /\ overlaps[1].confidence = Frac(1, 2)

(* C8: clear() does not fail; after it the frame count, the quality and    *)
(* the progress are 0, the composition is null and no overlap or transform *)
(* is kept; a second clear() changes nothing more.                         *)
C8_ClearEmptiesStitcher ==
  /\ [](ret.op = "clear" =>
          /\ ret.outcome = "ok"
          /\ getFrameCount = 0 /\ getFrames = <<>>
          /\ getQuality = Zero /\ getProgress = Zero
          /\ getComposition = 0
          /\ Len(overlaps) = 0 /\ DOMAIN transforms = {})
  /\ [][(ret.op = "clear" /\ ret'.op = "clear") => UNCHANGED vars]_vars

C8_Witness ==
  ret.op = "clear" /\ Len(frames) = 0 /\ DOMAIN heap = {}

(* C9: for two or more stored frames the composite canvas that stitch()  *)
(* draws on is, before cropping, at least as wide as the widest stored     *)
(* frame.                                                                  *)
C9_CompositeAtLeastWidestFrame ==
  (ret.op = "stitch" /\ ret.outcome = "ok" /\ Len(frames) >= 2) =>
    \A i \in 1..Len(frames) : ret.preWidth >= heap[frames[i].canvas].width

(* C10: the canvas that stitch() returns is another object than the canvas *)
(* of every stored frame and than the canvas getComposition() holds, so    *)
(* that drawing on it changes neither.                                     *)
C10_ReturnedCanvasIndependent ==
  (ret.op = "stitch" /\ ret.outcome = "ok") =>
    /\ \A i \in 1..Len(frames) : ret.value # frames[i].canvas
    /\ ret.value # getComposition

(* The part of a draw call's rectangle that falls on a canvas w wide and h *)
(* high, as <<x0, y0, x1, y1>> (x1 and y1 exclusive).                      *)
Clipped(l, w, h) ==
  << Max(0, Min(l.x, l.x + l.width)), Max(0, Min(l.y, l.y + l.height)),
     Min(w, Max(l.x, l.x + l.width)), Min(h, Max(l.y, l.y + l.height)) >>

(* C11: the rectangle that cropToContent copies lies within the canvas it  *)
(* was given (0 <= minX <= maxX <= width, 0 <= minY <= maxY <= height) and *)
(* covers every pixel a draw call put on that canvas, so every pixel that  *)
(* is not near-white.                                                      *)
C11_CropWithinCanvasKeepsContent ==
  (ret.op = "stitch" /\ ret.outcome = "ok" /\ Len(frames) >= 2
   /\ heap[ret.value].crop # <<>>) =>
    LET crop == heap[ret.value].crop
        minX == crop[1]
        minY == crop[2]
        maxX == crop[1] + crop[3]
        maxY == crop[2] + crop[4]
    IN /\ 0 <= minX /\ minX <= maxX /\ maxX <= ret.preWidth
       /\ 0 <= minY /\ minY <= maxY /\ maxY <= ret.preHeight
       /\ heap[ret.value].width = maxX - minX
       /\ heap[ret.value].height = maxY - minY
       /\ \A k \in 1..Len(heap[ret.value].layers) :
            LET c == Clipped(heap[ret.value].layers[k], ret.preWidth, ret.preHeight)
            IN (c[1] < c[3] /\ c[2] < c[4]) =>
                 /\ minX <= c[1] /\ c[3] <= maxX
                 /\ minY <= c[2] /\ c[4] <= maxY

C11_Witness ==
  /\ ret.op = "stitch" /\ ret.outcome = "ok" /\ Len(frames) = 3
  /\ heap[ret.value].crop # <<>>
  /\ \E k \in 1..Len(heap[ret.value].layers) :
       LET l == heap[ret.value].layers[k]
           c == Clipped(l, ret.preWidth, ret.preHeight)
       IN c[1] < c[3] /\ c[2] < c[4] /\ (l.x < 0 \/ l.height < 0)

(* C12: getProgress() is 0 with no frame stored and otherwise the sum of a *)
(* frame-count term frameCount/20 * 60 of at most 60 points and an overlap *)
(* term (stored overlaps / (frameCount - 1)) * 40 of at most 40 points.    *)
C12_ProgressIsSumOfCappedTerms ==
  LET n == Len(frames)
      frameTerm == Frac(n * 60, 20)
      overlapTerm == IF n > 1 THEN Frac(Len(overlaps) * 40, n - 1) ELSE Zero
  IN IF n = 0
       THEN getProgress = Zero
       ELSE /\ getProgress = FracAdd(frameTerm, overlapTerm)
            /\ FracLeq(frameTerm, Frac(60, 1))
            /\ FracLeq(overlapTerm, Frac(40, 1))

(* The sum of a sequence of fractions. *)
RECURSIVE FracSum(_)
FracSum(s) == IF s = <<>> THEN Zero ELSE FracAdd(Head(s), FracSum(Tail(s)))

(* C13: getQuality() is 0 with fewer than 2 frames stored and otherwise    *)
(* 0.4 * min(1, frameCount/20) + 0.3 * (mean confidence of the stored      *)
(* overlaps, 0 if none) + 0.3 * (mean quality of the stored frames).       *)
C13_QualityIsWeightedBlend ==
  LET n == Len(frames)
      m == Len(overlaps)
      countTerm == IF n >= 20 THEN One ELSE Frac(n, 20)
      meanConfidence ==
        IF m = 0 THEN Zero
        ELSE LET total == FracSum([i \in 1..m |-> overlaps[i].confidence])
             IN Frac(total.num, total.den * m)
      meanQuality ==
        LET total == FracSum([i \in 1..n |-> Frac(frames[i].quality, 100)])
        IN Frac(total.num, total.den * n)
      blend == Frac(4 * countTerm.num * meanConfidence.den * meanQuality.den
                    + 3 * meanConfidence.num * countTerm.den * meanQuality.den
                    + 3 * meanQuality.num * countTerm.den * meanConfidence.den,
                    10 * countTerm.den * meanConfidence.den * meanQuality.den)
  IN IF n < 2 THEN getQuality = Zero ELSE getQuality = blend

C13_Witness ==
  /\ Len(frames) = 21 /\ Len(overlaps) = Len(frames) - 1
  /\ frames[1].quality = 90
  /\ overlaps[1].confidence = Frac(1, 2) /\ overlaps[2].confidence = One
  /\ getQuality = Frac(111, 112)

(* C14: addFrame with a frame of quality 0.3 or more returns normally and  *)
(* appends it: the count grows by one, the frames stored before keep their *)
(* places and their canvases, and the last frame is the one passed,        *)
(* whatever its id and index.                                              *)
C14_AcceptedFrameAppended ==
  [][(ret'.op = "addFrame" /\ ret'.arg.quality >= 30) =>
       /\ ret'.outcome = "ok"
       /\ getFrameCount' = getFrameCount + 1
       /\ SubSeq(getFrames', 1, Len(frames)) = getFrames
       /\ \A i \in 1..Len(frames) : heap'[frames[i].canvas] = heap[frames[i].canvas]
       /\ LET last == frames'[Len(frames')]
          IN /\ last.id = ret'.arg.id
             /\ last.index = ret'.arg.index
             /\ last.quality = ret'.arg.quality
             /\ heap'[last.canvas] = ret'.arg.canvas
             /\ \A i \in 1..Len(frames) : frames[i].canvas # last.canvas]_vars

C14_Witness ==
  /\ ret.op = "addFrame" /\ ret.arg.quality = 30 /\ Len(frames) = 3
  /\ frames[3].id = ret.arg.id
  /\ frames[1].id = frames[2].id /\ frames[1].index > frames[2].index

(* C15: an undo or a redo never installs, for the current board-side, an   *)
(* annotation list that was recorded for another board-side: the popped    *)
(* entry, if there is one, was pushed while the same board and side were   *)
(* selected (the stacks being emptied at every change of board or side).   *)
C15_UndoRedoStayOnBoardSide ==
  [][/\ (hist'.event = "handleUndo" /\ undoStack # <<>>)
          => hist.undoKeys[Len(hist.undoKeys)] = boardKey
     /\ (hist'.event = "handleRedo" /\ redoStack # <<>>)
          => hist.redoKeys[Len(hist.redoKeys)] = boardKey]_vars

(* C16: each redo takes exactly one entry off the redo stack and adds one  *)
(* to the undo stack, and after n undos in a row followed by n redos in a  *)
(* row the annotation list is the one before the first undo.               *)
C16_RedoRestoresUndone ==
  /\ [][(hist'.event = "handleRedo" /\ redoStack # <<>>) =>
          /\ Len(redoStack') = Len(redoStack) - 1
          /\ Len(undoStack') = Len(undoStack) + 1]_vars
  /\ []((hist.undos > 0 /\ hist.redos = hist.undos) =>
          getCurrentAnnotations = hist.base)

(* The draw calls of the composite a successful multi-frame stitch() has   *)
(* just returned with its content copied.                                  *)
Composited ==
  /\ ret.op = "stitch" /\ ret.outcome = "ok" /\ Len(frames) >= 2
  /\ heap[ret.value].kind = "cropped"

CompositeLayers == heap[ret.value].layers

(* The call that drew frame i (1-based) blended, at 70% opacity. *)
BlendDraws(i) ==
  { k \in 1..Len(CompositeLayers) :
      /\ CompositeLayers[k].op = "drawImage"
      /\ CompositeLayers[k].src = frames[i].canvas
      /\ CompositeLayers[k].alpha = 7 }

(* C17: stitch() blends a frame with its predecessor exactly when overlap  *)
(* detection on that pair found a region, and then with that pair's own    *)
(* region: the gradient covers the region and the frame is drawn at the    *)
(* region's vertical offset.                                               *)
C17_BlendsExactlyOverlappingPairs ==
  Composited =>
    \A i \in 2..Len(frames) :
      LET region == detectOverlap(frames[i - 1], frames[i])
      IN /\ (BlendDraws(i) # {}) <=> (region # <<>>)
         /\ \A k \in BlendDraws(i) :
              /\ region # <<>>
              /\ CompositeLayers[k - 1].op = "fillRect"
              /\ CompositeLayers[k - 1].x = CompositeLayers[k - 2].x + region[1].x
              /\ CompositeLayers[k - 1].y = Padding + region[1].y
              /\ CompositeLayers[k - 1].width = region[1].width
              /\ CompositeLayers[k - 1].height = region[1].height
              /\ CompositeLayers[k].y = Padding + region[1].y

RECURSIVE WidthSum(_)
WidthSum(n) == IF n = 0 THEN 0 ELSE heap[frames[n].canvas].width + WidthSum(n - 1)

(* C18: for two or more frames the composite canvas is, before cropping,   *)
(* (sum of the frame widths) - 30 * (number of consecutive pairs with an   *)
(* overlap found) + 40 wide and (greatest frame height) + 40 high.         *)
C18_CompositeSize ==
  (ret.op = "stitch" /\ ret.outcome = "ok" /\ Len(frames) >= 2) =>
    LET found == { i \in 1..(Len(frames) - 1) :
                     detectOverlap(frames[i], frames[i + 1]) # <<>> }
    IN /\ ret.preWidth = WidthSum(Len(frames)) - 30 * Cardinality(found) + 40
       /\ \A i \in 1..Len(frames) : ret.preHeight >= heap[frames[i].canvas].height + 40
       /\ \E i \in 1..Len(frames) : ret.preHeight = heap[frames[i].canvas].height + 40

(* The draw calls that drew frame i (1-based). *)
DrawsOf(i) ==
  { k \in 1..Len(CompositeLayers) :
      CompositeLayers[k].op = "drawImage" /\ CompositeLayers[k].src = frames[i].canvas }

SetMin(S) == CHOOSE k \in S : \A j \in S : k <= j

SetMax(S) == CHOOSE k \in S : \A j \in S : k >= j

(* C19: a frame for whose pair no overlap was found, and which is placed   *)
(* without blending, is drawn with its left edge at the right edge of its  *)
(* predecessor as drawn, and the cursor then advances by its full width:   *)
(* a later redraw of the frame is at the same place.                       *)
C19_UnblendedFrameAdjacent ==
  Composited =>
    \A i \in 2..Len(frames) :
      (detectOverlap(frames[i - 1], frames[i]) = <<>> /\ BlendDraws(i) = {}) =>
        LET first == SetMin(DrawsOf(i))
            prev  == CompositeLayers[SetMax({ k \in DrawsOf(i - 1) : k < first })]
        IN /\ CompositeLayers[first].x = prev.x + prev.width
           /\ \A k \in DrawsOf(i) : CompositeLayers[k].x = CompositeLayers[first].x

(* The score of every candidate offset for a pair of canvases: entry o + 1 *)
(* is the score at offset o, for 0 <= o < min(strip lengths) - 20.         *)
OffsetScores(canvas1, canvas2) ==
  LET rightEdge == extractVerticalEdge(canvas1, "right", 60)
      leftEdge == extractVerticalEdge(canvas2, "left", 60)
      n == Max(0, Min(Len(rightEdge), Len(leftEdge)) - 20)
  IN SubSeq([o \in 1..n |-> correlateEdges(rightEdge, leftEdge, o - 1)], 1, n)

RECURSIVE ScoreRow(_, _)
ScoreRow(key1, keys) ==
  IF keys = {} THEN <<>>
  ELSE LET key2 == CHOOSE k \in keys : TRUE
       IN (key2 :> OffsetScores(KeyCanvas(key1), KeyCanvas(key2)))
          @@ ScoreRow(key1, keys \ {key2})

RECURSIVE ScoreRows(_)
ScoreRows(keys) ==
  IF keys = {} THEN <<>>
  ELSE LET key1 == CHOOSE k \in keys : TRUE
       IN (key1 :> ScoreRow(key1, ContentKeys)) @@ ScoreRows(keys \ {key1})

ScoreMemo == ScoreRows(ContentKeys)

(* C20: for a pair of frames whose strips can be read, overlap detection   *)
(* returns no region exactly when the greatest score over the candidate    *)
(* offsets is below 0.5, and otherwise a region whose confidence is that   *)
(* greatest score, whose y is an offset with that score, and with          *)
(* x = left width - 60, width = 60 and height = left height - |y|.         *)
C20_RegionIsBestOffset ==
  \A i \in 1..(Len(frames) - 1) :
    LET canvas1 == heap[frames[i].canvas]
        canvas2 == heap[frames[i + 1].canvas]
        found == detectOverlap(frames[i], frames[i + 1])
        scores == ScoreMemo[ContentKey(canvas1)][ContentKey(canvas2)]
    IN (canvas1.ctx /\ canvas2.ctx) =>
         IF \A o \in 1..Len(scores) : FracLess(scores[o], Frac(1, 2))
           THEN found = <<>>
           ELSE /\ found # <<>>
                /\ \A o \in 1..Len(scores) : FracLeq(scores[o], found[1].confidence)
                /\ found[1].y \in 0..(Len(scores) - 1)
                /\ scores[found[1].y + 1] = found[1].confidence
                /\ found[1].x = canvas1.width - 60
                /\ found[1].width = 60
                /\ found[1].height = canvas1.height - Abs(found[1].y)
                /\ found[1].frame1Id = frames[i].id
                /\ found[1].frame2Id = frames[i + 1].id

C20_Witness ==
  /\ ret.op = "stitch" /\ Len(frames) = 3 /\ Len(overlaps) = 1
  /\ heap[frames[1].canvas].ctx /\ heap[frames[2].canvas].ctx
  /\ detectOverlap(frames[1], frames[2]) = <<>>
  /\ overlaps[1] = detectOverlap(frames[2], frames[3])[1]
  /\ overlaps[1].y = 39 /\ overlaps[1].confidence = Frac(11, 21)

(* The draw calls of the composite that fall on the canvas, clipped to it. *)
(* Outside them the canvas shows the white fill only.                      *)
DrawnRects ==
  { c \in { Clipped(CompositeLayers[k], ret.preWidth, ret.preHeight) :
              k \in 1..Len(CompositeLayers) } : c[1] < c[3] /\ c[2] < c[4] }

(* C21: the canvas a multi-frame stitch() returns is the composite cropped *)
(* to the bounding rectangle of its pixels that are not near-white, grown  *)
(* by 10px and clamped: as every such pixel comes from a draw call, no     *)
(* side of the copied rectangle lies more than 10px outside the draw       *)
(* calls, the rest of the white fill being removed.                        *)
C21_CropRemovesBackground ==
  (Composited /\ DrawnRects # {}) =>
    LET crop == heap[ret.value].crop
    IN /\ \E c \in DrawnRects : crop[1] >= Max(0, c[1] - CropPadding)
       /\ \E c \in DrawnRects : crop[2] >= Max(0, c[2] - CropPadding)
       /\ \E c \in DrawnRects : crop[1] + crop[3] <= Min(ret.preWidth, c[3] + CropPadding)
       /\ \E c \in DrawnRects : crop[2] + crop[4] <= Min(ret.preHeight, c[4] + CropPadding)

(* C22: after every stitch() that succeeds, a single-frame one included,   *)
(* getComposition() is the canvas that call returned; before the first     *)
(* successful stitch() and after clear() it is null.                       *)
C22_CompositionIsLastStitchResult ==
  /\ (ret.op = "stitch" /\ ret.outcome = "ok") => getComposition = ret.value
  /\ ret.op \in {"new", "clear"} => getComposition = 0

(* The stored overlap o names two frames next to each other in the list. *)
NamesAdjacentFrames(o) ==
  \E i \in 1..(Len(frames) - 1) :
    frames[i].id = o.frame1Id /\ frames[i + 1].id = o.frame2Id

(* C24: there are at most max(0, getFrameCount() - 1) stored overlaps and  *)
(* each names as frame1Id and frame2Id two frames adjacent in the stored   *)
(* list; addFrame leaves the stored overlaps as they are, only stitch()    *)
(* and clear() change them.                                                *)
C24_OverlapsFitFrames ==
  /\ [](/\ Len(overlaps) <= Max(0, getFrameCount - 1)
        /\ \A k \in 1..Len(overlaps) : NamesAdjacentFrames(overlaps[k]))
  /\ [][/\ ret'.op = "addFrame" => overlaps' = overlaps
        /\ overlaps' # overlaps => ret'.op \in {"stitch", "clear"}]_vars

(* An accepted frame has followed a stitch that stored an overlap. *)
C24_Witness ==
  /\ ret.op = "addFrame" /\ ~Rejects(ret.arg)
  /\ Len(overlaps) = 1 /\ getFrameCount = 3

(* C25: for frames at least 60px wide, the region detectOverlap returns    *)
(* lies inside the left frame: 0 <= y < height of the frame, its height is *)
(* positive, y + height <= height of the frame, x >= 0 and x + width <=    *)
(* width of the frame.                                                     *)
C25_RegionInsideLeftFrame ==
  \A i \in 1..(Len(frames) - 1) :
    LET canvas1 == heap[frames[i].canvas]
        canvas2 == heap[frames[i + 1].canvas]
        found == detectOverlap(frames[i], frames[i + 1])
    IN (canvas1.width >= EdgeWidth /\ canvas2.width >= EdgeWidth /\ found # <<>>) =>
         /\ 0 <= found[1].y /\ found[1].y < canvas1.height
         /\ found[1].height > 0
         /\ found[1].y + found[1].height <= canvas1.height
         /\ found[1].x >= 0
         /\ found[1].x + found[1].width <= canvas1.width

(* C26: an accepted addFrame never lowers getProgress(), also after an     *)
(* earlier stitch() stored the overlaps it found.                          *)
C26_AcceptedFrameKeepsProgress ==
  [][(ret'.op = "addFrame" /\ ~Rejects(ret'.arg)) =>
       FracLeq(Progress(frames, overlaps), Progress(frames', overlaps'))]_vars

(* The x positions at which the canvas of frame i (1-based) was drawn. *)
DrawnAt(i) ==
  { CompositeLayers[k].x : k \in DrawsOf(i) }

(* C27: during one stitch() each frame is drawn at one horizontal          *)
(* position: redrawn as the predecessor of a blended frame, it is drawn at *)
(* the x at which it was first placed.                                     *)
C27_FrameDrawnAtOnePosition ==
  Composited =>
    \A i \in 1..Len(frames) : Cardinality(DrawnAt(i)) <= 1

(* C23: a stitch() call runs to its end without interruption: from its     *)
(* start until its overlaps and composition are stored the frames of the   *)
(* stitcher stay those stored when it was called, the overlaps stored name *)
(* pairs of those frames, and the composite it stores and returns is built *)
(* from exactly those frames.                                              *)
C23_StitchRunsUninterrupted ==
  [][/\ task.pc \in {"detect", "compose"} =>
          stitchers'[task.side].frames = task.called
     /\ (task.pc = "detect" /\ task'.pc = "compose") =>
          \A k \in 1..Len(stitchers'[task.side].overlaps) :
            \E i \in 1..(Len(task.called) - 1) :
              stitchers'[task.side].overlaps[k] = <<task.called[i], task.called[i + 1]>>
     /\ (task.pc = "compose" /\ task'.pc = "resume" /\ task'.outcome = "ok") =>
          /\ stitchers'[task.side].composition = <<task.called>>
          /\ task'.value = task.called]_vars

(* A stitch() of several frames has stored and returned its composite. *)
C23_Witness ==
  /\ task.pc = "resume" /\ task.outcome = "ok"
  /\ Len(task.called) = MaxScanFrames
  /\ stitchers[task.side].composition = <<task.called>>
  /\ stitchers[task.side].overlaps # <<>>

(* C28: the frames one side's stitcher holds have pairwise distinct ids,   *)
(* after any sequence of startScan, frame captures, camera errors and      *)
(* stopScan.                                                               *)
C28_FrameIdsDistinct ==
  \A side \in Sides :
    \A i, j \in 1..Len(stitchers[side].frames) :
      i # j => stitchers[side].frames[i] # stitchers[side].frames[j]

(* C29: once stopCamera or the effect cleanup has run, with no startCamera *)
(* after it, and every getUserMedia request is settled, no track of any    *)
(* stream the hook obtained is live.                                       *)
C29_NoTrackLeftLive ==
  (stopped /\ requests = 0) =>
    \A i \in 1..Len(tracks) : tracks[i] = "stopped"

(* C30: with searchQuery and ocrWords unchanged the hook settles: from     *)
(* some render on no setMatchedComponent update is queued any more, also   *)
(* when every entry of the history holds the same matching word.           *)
C30_DetectionSettles ==
  <>[](pendingUpdate = <<>>)

====
